---- MODULE Spec2Model ----
(***************************************************************************)
(* Model of src/src/ecg/ecg_filters.py: the three ECG filter stages        *)
(* (apply_dft_filter, apply_emg_filter, apply_ac_filter), the pipeline     *)
(* apply_ecg_filters and its adapter apply_ecg_filters_from_settings.      *)
(*                                                                         *)
(* Buffers live in a heap of objects so that aliasing (the same object     *)
(* returned) and copying (a new object with equal samples) differ.         *)
(* Frequencies are kept in 1/100 Hz, sampling rates in Hz.  The numeric    *)
(* kernel of scipy (butter, iirnotch, filtfilt) is a deterministic         *)
(* function of its coefficients and input; a filtered buffer records the   *)
(* filter applications it went through (ops), while the part of filtfilt   *)
(* that decides whether it runs at all (the edge padding length check) is  *)
(* modelled as scipy computes it.                                          *)
(***************************************************************************)
EXTENDS Integers, Sequences, FiniteSets, TLC

\* ------------------------------------------------------------------ bounds
MaxLen == 16          \* longest input buffer
NumThreads == 2       \* concurrent invocations in SpecConc

\* ------------------------------------------------------- program constants
MinSignalLen == 10    \* len(signal) < 10
quality_factor == 30  \* quality_factor = 30.0
EmgOrder == 4         \* butter(4, ...)
DftOrder == 2         \* butter(2, ...)
NotchOrder == 2       \* iirnotch designs a second-order section
PadFactor == 3        \* filtfilt: padlen = 3 * max(len(a), len(b))

Threads == 1..NumThreads
Stages == {"DFT", "EMG", "AC"}

\* ------------------------------------------------------------- selectors
\* A selector argument: None, a text (sequence of characters) or a number
\* (val, in 1/100 Hz).
None == [tag |-> "none", chars |-> <<>>, val |-> 0]
Text(cs) == [tag |-> "text", chars |-> cs, val |-> 0]
Num(v) == [tag |-> "num", chars |-> <<>>, val |-> v]

T_off == Text(<<"o", "f", "f">>)
T_empty == Text(<<>>)
T_abc == Text(<<"a", "b", "c">>)
T_nan == Text(<<"n", "a", "n">>)
T_0 == Text(<<"0">>)
T_m5 == Text(<<"-", "5">>)
T_0p5 == Text(<<"0", ".", "5">>)
T_0p05 == Text(<<"0", ".", "0", "5">>)
T_50 == Text(<<"5", "0">>)
T_60 == Text(<<"6", "0">>)
T_150 == Text(<<"1", "5", "0">>)

\* Python truthiness of a selector: `if ac_filter:` / `not ac_filter`.
Truthy(sel) ==
    CASE sel.tag = "none" -> FALSE
      [] sel.tag = "text" -> sel.chars /= <<>>
      [] sel.tag = "num" -> sel.val /= 0

\* `ac_filter == "off"`
IsOffText(sel) == sel.tag = "text" /\ sel.chars = <<"o", "f", "f">>

Digits == {"0", "1", "2", "3", "4", "5", "6", "7", "8", "9"}

DigitVal(c) ==
    CASE c = "0" -> 0 [] c = "1" -> 1 [] c = "2" -> 2 [] c = "3" -> 3
      [] c = "4" -> 4 [] c = "5" -> 5 [] c = "6" -> 6 [] c = "7" -> 7
      [] c = "8" -> 8 [] c = "9" -> 9

RECURSIVE DigitsVal(_)
DigitsVal(s) ==
    IF s = <<>> THEN 0
    ELSE DigitsVal(SubSeq(s, 1, Len(s) - 1)) * 10 + DigitVal(s[Len(s)])

AllDigits(s) == \A i \in 1..Len(s) : s[i] \in Digits

\* The text after an optional sign.
Unsigned(s) == IF s /= <<>> /\ s[1] \in {"-", "+"} THEN Tail(s) ELSE s

Negative(s) == s /= <<>> /\ s[1] = "-"

Dots(body) == {i \in 1..Len(body) : body[i] = "."}

\* The digits before and after the decimal point.
IntPart(body) ==
    IF Dots(body) = {} THEN body
    ELSE SubSeq(body, 1, (CHOOSE i \in Dots(body) : TRUE) - 1)

FracPart(body) ==
    IF Dots(body) = {} THEN <<>>
    ELSE SubSeq(body, (CHOOSE i \in Dots(body) : TRUE) + 1, Len(body))

\* The fractional digits as hundredths.
Hundredths(fp) ==
    CASE Len(fp) = 0 -> 0
      [] Len(fp) = 1 -> DigitsVal(fp) * 10
      [] OTHER -> DigitsVal(fp)

\* A decimal text: its value in 1/100 Hz, or ValueError when it is no number.
Decimal(neg, body, ip, fp) ==
    IF Cardinality(Dots(body)) > 1 \/ ~AllDigits(ip) \/ ~AllDigits(fp)
       \/ Len(ip) + Len(fp) = 0 \/ Len(fp) > 2
    THEN [exc |-> "ValueError", nan |-> FALSE, v |-> 0]
    ELSE [exc |-> "none", nan |-> FALSE,
          v |-> IF neg THEN 0 - (DigitsVal(ip) * 100 + Hundredths(fp))
                ELSE DigitsVal(ip) * 100 + Hundredths(fp)]

\* float(selector): the parsed value in 1/100 Hz, NaN, or the exception
\* raised.  A number is its own value; decimal texts with a sign and up to
\* two fractional digits are parsed digit by digit; "nan" gives NaN; any
\* other text raises ValueError; None raises TypeError.
float(sel) ==
    CASE sel.tag = "num" -> [exc |-> "none", nan |-> FALSE, v |-> sel.val]
      [] sel.tag = "none" -> [exc |-> "TypeError", nan |-> FALSE, v |-> 0]
      [] sel.tag = "text" /\ sel.chars = <<"n", "a", "n">> ->
             [exc |-> "none", nan |-> TRUE, v |-> 0]
      [] OTHER -> Decimal(Negative(sel.chars), Unsigned(sel.chars),
                          IntPart(Unsigned(sel.chars)), FracPart(Unsigned(sel.chars)))

\* --------------------------------------------------------------- buffers
\* A buffer object: a Python list or a numpy array, its samples, and the
\* filter applications (ops) its samples went through.
Obj(kind, x, ops) == [kind |-> kind, x |-> x, ops |-> ops]

Sample(i) == ((i * i) % 5) - 2
Ramp(n) == [i \in 1..n |-> Sample(i)]

SameSamples(a, b) == a.x = b.x /\ a.ops = b.ops

\* -------------------------------------------------------------- the stages
\* Taps of the designed filter: butter(N) gives N + 1 coefficients, iirnotch 3.
NumTaps(order) == order + 1

\* w0 = f / (sampling_rate / 2.0) as the fraction num / den
\* (f = v / 100 Hz, so w0 = 2 v / (100 sampling_rate)).
Normalized(v, sampling_rate) == [num |-> 2 * v, den |-> 100 * sampling_rate]

\* `w0 <= 0 or w0 >= 1` for w0 = num / den, den /= 0.
OutOfRange(w) ==
    IF w.den > 0 THEN w.num <= 0 \/ w.num >= w.den
    ELSE w.num >= 0 \/ w.num <= w.den

\* filtfilt(b, a, signal): raises ValueError unless the input is longer than
\* the edge padding padlen = 3 * ntaps; otherwise a new array.
FiltfiltFails(ntaps, x) == Len(x) <= PadFactor * ntaps

\* Mutant of Catches: `except ValueError`, which lets a division by a zero
\* Nyquist frequency through.
CatchesValueErrorOnly(exc) == exc = "ValueError"

\* `except Exception as e`: every exception raised in a stage is caught.
Catches(exc) == TRUE

Warn(stage) == [level |-> "warn", stage |-> stage]
Error(stage) == [level |-> "error", stage |-> stage]

\* What a stage function returns: the argument object itself (same) or a new
\* array (obj), the diagnostics printed, and the exception propagated to the
\* caller, if any.
Same(sig, diag) == [same |-> TRUE, obj |-> sig, diag |-> diag, exc |-> "none", applied |-> FALSE]
Raised(sig, exc) == [same |-> TRUE, obj |-> sig, diag |-> <<>>, exc |-> exc, applied |-> FALSE]
Fresh(o) == [same |-> FALSE, obj |-> o, diag |-> <<>>, exc |-> "none", applied |-> TRUE]

\* The exception raised inside the try block, "none" when the block completes.
TryExc(design, order, sig, sampling_rate, sel) ==
    LET p == float(sel)
        w == Normalized(p.v, sampling_rate)
    IN  IF p.exc /= "none" THEN p.exc
        ELSE IF w.den = 0 THEN "ZeroDivisionError"
        ELSE IF ~p.nan /\ OutOfRange(w) THEN "none"
        ELSE IF p.nan THEN "ValueError"
        ELSE IF FiltfiltFails(NumTaps(order), sig.x) THEN "ValueError"
        ELSE "none"

\* The common body of the three stage functions.
StageBody(stage, design, order, sig, sampling_rate, sel) ==
    IF IsOffText(sel) \/ ~Truthy(sel) THEN Same(sig, <<>>)
    ELSE
      LET exc == TryExc(design, order, sig, sampling_rate, sel)
          p == float(sel)
          w == Normalized(p.v, sampling_rate)
      IN  IF exc /= "none"
          THEN IF Catches(exc) THEN Same(sig, <<Error(stage)>>) ELSE Raised(sig, exc)
          ELSE IF OutOfRange(w) THEN Same(sig, <<Warn(stage)>>)
          ELSE Fresh(Obj("ndarray", sig.x,
                         Append(sig.ops, [design |-> design, order |-> order,
                                          q |-> IF design = "iirnotch" THEN quality_factor ELSE 0,
                                          num |-> w.num, den |-> w.den])))

apply_ac_filter(sig, sampling_rate, ac_filter) ==
    StageBody("AC", "iirnotch", NotchOrder, sig, sampling_rate, ac_filter)

apply_emg_filter(sig, sampling_rate, emg_filter) ==
    StageBody("EMG", "butter", EmgOrder, sig, sampling_rate, emg_filter)

apply_dft_filter(sig, sampling_rate, dft_filter) ==
    StageBody("DFT", "butter", DftOrder, sig, sampling_rate, dft_filter)

ApplyStage(stage, sig, sampling_rate, sel) ==
    CASE stage = "DFT" -> apply_dft_filter(sig, sampling_rate, sel)
      [] stage = "EMG" -> apply_emg_filter(sig, sampling_rate, sel)
      [] stage = "AC" -> apply_ac_filter(sig, sampling_rate, sel)

\* ------------------------------------------------------------------ state
VARIABLES
    heap,       \* the objects allocated so far; an object's id is its index
    call,       \* per invocation: the entry point called and its arguments
    sel,        \* per invocation: ac_filter, emg_filter, dft_filter of apply_ecg_filters
    pc,         \* per invocation: its position
    filtered,   \* per frame: the local variable `filtered` (an object id)
    ret,        \* per invocation: the object returned (0 before the return)
    raised,     \* per invocation: the exception that left the call, or "none"
    diag,       \* per invocation: the diagnostics it printed
    trace,      \* per invocation: the stage functions it called, in order
    answers,    \* what the settings provider answers for each key
    queries     \* per invocation: the get_setting calls made, in order

vars == <<heap, call, sel, pc, filtered, ret, raised, diag, trace, answers, queries>>

Keys == {"filter_ac", "filter_emg", "filter_dft"}

\* Mutant of Frame: `filtered` kept in one module-level variable shared by
\* all invocations.
SharedFrame(t) == 1

\* The frame that holds an invocation's local variables.
Frame(t) == t

\* np.array(signal, dtype=float): a new array with the list's samples.
np_array(o) == Obj("ndarray", o.x, o.ops)

\* Mutant of copy: np.zeros_like(signal), a new array of the same length
\* that does not carry the samples.
zeros_like(o) == Obj("ndarray", [i \in 1..Len(o.x) |-> 0], o.ops)

\* signal.copy(): a new array with the same samples.
copy(o) == Obj("ndarray", o.x, o.ops)

\* Mutant of TooShort: the minimum length check off by one, `len(signal) < 9`.
TooShortOffByOne(x) == Len(x) < MinSignalLen - 1

\* `len(signal) < 10`
TooShort(x) == Len(x) < MinSignalLen

\* Mutant of After: the EMG stage placed before the DFT stage.
AfterSwapped(p) ==
    CASE p = "entry" -> "emg"
      [] p = "emg" -> "dft"
      [] p = "dft" -> "ac"
      [] p = "ac" -> "return"

\* The statement order of apply_ecg_filters: the position that follows p.
After(p) ==
    CASE p = "entry" -> "dft"
      [] p = "dft" -> "emg"
      [] p = "emg" -> "ac"
      [] p = "ac" -> "return"

\* Mutant of SettingQuery: the EMG and DFT settings routed to each other's
\* stage.
SettingQuerySwapped(stage) ==
    CASE stage = "AC" -> [key |-> "filter_ac", default |-> T_off]
      [] stage = "EMG" -> [key |-> "filter_dft", default |-> T_0p5]
      [] stage = "DFT" -> [key |-> "filter_emg", default |-> T_150]

\* The get_setting call that supplies a stage's selector: its key and default.
SettingQuery(stage) ==
    CASE stage = "AC" -> [key |-> "filter_ac", default |-> T_off]
      [] stage = "EMG" -> [key |-> "filter_emg", default |-> T_150]
      [] stage = "DFT" -> [key |-> "filter_dft", default |-> T_0p5]

IdleCall == [fn |-> "none", stage |-> "none", obj |-> Obj("list", <<>>, <<>>),
             sampling_rate |-> 0, ac |-> None, emg |-> None, dft |-> None]

StartPc(fn) ==
    CASE fn = "none" -> "idle"
      [] fn = "apply_ecg_filters" -> "entry"
      [] fn = "apply_ecg_filters_from_settings" -> "settings"
      [] fn = "stage" -> "stage"

\* The state at the moment the calls cs[t] are made; thread t's input buffer
\* is object t.
InitWith(cs, ans) ==
    /\ heap = [t \in Threads |-> cs[t].obj]
    /\ call = [t \in Threads |->
                 [fn |-> cs[t].fn, stage |-> cs[t].stage, inp |-> t,
                  sampling_rate |-> cs[t].sampling_rate, x0 |-> cs[t].obj]]
    /\ sel = [t \in Threads |-> [ac |-> cs[t].ac, emg |-> cs[t].emg, dft |-> cs[t].dft]]
    /\ pc = [t \in Threads |-> StartPc(cs[t].fn)]
    /\ filtered = [t \in Threads |-> 0]
    /\ ret = [t \in Threads |-> 0]
    /\ raised = [t \in Threads |-> "none"]
    /\ diag = [t \in Threads |-> <<>>]
    /\ trace = [t \in Threads |-> <<>>]
    /\ answers = ans
    /\ queries = [t \in Threads |-> <<>>]

\* ---------------------------------------------------------------- actions
\* apply_ecg_filters_from_settings: three get_setting calls, then the call of
\* apply_ecg_filters with the three answers.
FromSettings(t) ==
    /\ pc[t] = "settings"
    /\ queries' = [queries EXCEPT ![t] =
                     <<SettingQuery("AC"), SettingQuery("EMG"), SettingQuery("DFT")>>]
    /\ sel' = [sel EXCEPT ![t] = [ac |-> answers[SettingQuery("AC").key],
                                  emg |-> answers[SettingQuery("EMG").key],
                                  dft |-> answers[SettingQuery("DFT").key]]]
    /\ pc' = [pc EXCEPT ![t] = "entry"]
    /\ UNCHANGED <<heap, call, filtered, ret, raised, diag, trace, answers>>

\* apply_ecg_filters up to the copy: coercion of a non-array input, the
\* minimum length check, filtered = signal.copy().
Enter(t) ==
    /\ pc[t] = "entry"
    /\ LET o == heap[call[t].inp]
           coerced == o.kind /= "ndarray"
           heap1 == IF coerced THEN Append(heap, np_array(o)) ELSE heap
           signal == IF coerced THEN Len(heap1) ELSE call[t].inp
       IN  IF TooShort(heap1[signal].x)
           THEN /\ heap' = heap1
                /\ ret' = [ret EXCEPT ![t] = signal]
                /\ pc' = [pc EXCEPT ![t] = "done"]
                /\ UNCHANGED filtered
           ELSE /\ heap' = Append(heap1, copy(heap1[signal]))
                /\ filtered' = [filtered EXCEPT ![Frame(t)] = Len(heap1) + 1]
                /\ pc' = [pc EXCEPT ![t] = After("entry")]
                /\ UNCHANGED ret
    /\ UNCHANGED <<call, sel, raised, diag, trace, answers, queries>>

\* One stage of the pipeline: `if x_filter: filtered = apply_x_filter(...)`.
RunStage(t, stage, selector, next) ==
    IF Truthy(selector)
    THEN LET arg == filtered[Frame(t)]
             r == ApplyStage(stage, heap[arg], call[t].sampling_rate, selector)
             out == IF r.same THEN arg ELSE Len(heap) + 1
         IN  IF r.exc /= "none"
             THEN /\ raised' = [raised EXCEPT ![t] = r.exc]
                  /\ pc' = [pc EXCEPT ![t] = "raised"]
                  /\ UNCHANGED <<heap, filtered, diag, trace>>
             ELSE /\ heap' = IF r.same THEN heap ELSE Append(heap, r.obj)
                  /\ filtered' = [filtered EXCEPT ![Frame(t)] = out]
                  /\ diag' = [diag EXCEPT ![t] = @ \o r.diag]
                  /\ trace' = [trace EXCEPT ![t] =
                                 Append(@, [stage |-> stage, arg |-> arg, out |-> out,
                                            applied |-> r.applied])]
                  /\ pc' = [pc EXCEPT ![t] = next]
                  /\ UNCHANGED raised
    ELSE /\ pc' = [pc EXCEPT ![t] = next]
         /\ UNCHANGED <<heap, filtered, diag, trace, raised>>

RunDFT(t) ==
    /\ pc[t] = "dft"
    /\ RunStage(t, "DFT", sel[t].dft, After("dft"))
    /\ UNCHANGED <<call, sel, ret, answers, queries>>

RunEMG(t) ==
    /\ pc[t] = "emg"
    /\ RunStage(t, "EMG", sel[t].emg, After("emg"))
    /\ UNCHANGED <<call, sel, ret, answers, queries>>

RunAC(t) ==
    /\ pc[t] = "ac"
    /\ RunStage(t, "AC", sel[t].ac, After("ac"))
    /\ UNCHANGED <<call, sel, ret, answers, queries>>

\* Mutant of Return: the result written back into the caller's array before
\* it is returned (`signal[:] = filtered`).
ReturnInPlace(t) ==
    /\ pc[t] = "return"
    /\ heap' = IF heap[call[t].inp].kind = "ndarray"
               THEN [heap EXCEPT ![call[t].inp] = heap[filtered[Frame(t)]]]
               ELSE heap
    /\ ret' = [ret EXCEPT ![t] = filtered[Frame(t)]]
    /\ pc' = [pc EXCEPT ![t] = "done"]
    /\ UNCHANGED <<call, sel, filtered, raised, diag, trace, answers, queries>>

\* return filtered
Return(t) ==
    /\ pc[t] = "return"
    /\ ret' = [ret EXCEPT ![t] = filtered[Frame(t)]]
    /\ pc' = [pc EXCEPT ![t] = "done"]
    /\ UNCHANGED <<heap, call, sel, filtered, raised, diag, trace, answers, queries>>

\* A direct call of one stage function on the caller's buffer.
StageCall(t) ==
    /\ pc[t] = "stage"
    /\ LET stage == call[t].stage
           selector == CASE stage = "DFT" -> sel[t].dft
                         [] stage = "EMG" -> sel[t].emg
                         [] stage = "AC" -> sel[t].ac
           arg == call[t].inp
           r == ApplyStage(stage, heap[arg], call[t].sampling_rate, selector)
           out == IF r.same THEN arg ELSE Len(heap) + 1
       IN  IF r.exc /= "none"
           THEN /\ raised' = [raised EXCEPT ![t] = r.exc]
                /\ pc' = [pc EXCEPT ![t] = "raised"]
                /\ UNCHANGED <<heap, ret, diag, trace>>
           ELSE /\ heap' = IF r.same THEN heap ELSE Append(heap, r.obj)
                /\ ret' = [ret EXCEPT ![t] = out]
                /\ diag' = [diag EXCEPT ![t] = @ \o r.diag]
                /\ trace' = [trace EXCEPT ![t] =
                               Append(@, [stage |-> stage, arg |-> arg, out |-> out,
                                          applied |-> r.applied])]
                /\ pc' = [pc EXCEPT ![t] = "done"]
                /\ UNCHANGED raised
    /\ UNCHANGED <<call, sel, filtered, answers, queries>>

\* ----------------------------------------------------------------- inputs
EmgPad == PadFactor * NumTaps(EmgOrder)
Lens == {0, MinSignalLen - 1, MinSignalLen, EmgPad, MaxLen}
Buffers == {Obj(k, Ramp(n), <<>>) : k \in {"list", "ndarray"}, n \in Lens}

Rates == {0, 100, 500}
Sels == {None, T_off, T_abc, T_0, Num(0), T_0p5, T_50, T_150}

StageRates == Rates \cup {0 - 100}
StageSels == Sels \cup {T_empty, T_nan, T_m5, T_0p05, T_60, Num(5000), Num(0 - 500)}

PipelineCalls ==
    {[fn |-> "apply_ecg_filters", stage |-> "none", obj |-> b, sampling_rate |-> r,
      ac |-> a, emg |-> e, dft |-> d] :
        b \in Buffers, r \in Rates, a \in Sels, e \in Sels, d \in Sels}

StageCalls ==
    {[fn |-> "stage", stage |-> s, obj |-> b, sampling_rate |-> r,
      ac |-> x, emg |-> x, dft |-> x] :
        s \in Stages, b \in Buffers, r \in StageRates, x \in StageSels}

SettingsCalls ==
    {[fn |-> "apply_ecg_filters_from_settings", stage |-> "none", obj |-> b,
      sampling_rate |-> 500, ac |-> None, emg |-> None, dft |-> None] :
        b \in {Obj("ndarray", Ramp(MaxLen), <<>>), Obj("list", Ramp(MinSignalLen - 1), <<>>)}}

SettingsAnswers == [Keys -> {None, T_off, T_abc, T_0p5, T_50, T_150}]
NoAnswers == [k \in Keys |-> None]

\* One invocation (thread 1), of any entry point.
Init ==
    \/ \E c \in PipelineCalls :
         InitWith([t \in Threads |-> IF t = 1 THEN c ELSE IdleCall], NoAnswers)
    \/ \E c \in StageCalls :
         InitWith([t \in Threads |-> IF t = 1 THEN c ELSE IdleCall], NoAnswers)
    \/ \E c \in SettingsCalls, ans \in SettingsAnswers :
         InitWith([t \in Threads |-> IF t = 1 THEN c ELSE IdleCall], ans)

Step(t) ==
    \/ FromSettings(t)
    \/ Enter(t)
    \/ RunDFT(t)
    \/ RunEMG(t)
    \/ RunAC(t)
    \/ Return(t)
    \/ StageCall(t)

Next == Step(1)

Spec == Init /\ [][Next]_vars

\* ---------------------------------------------------- concurrent invocations
MixedAnswers == [k \in Keys |->
                   CASE k = "filter_ac" -> T_50
                     [] k = "filter_emg" -> T_off
                     [] k = "filter_dft" -> T_0p5]

ConcCalls ==
    << [fn |-> "apply_ecg_filters", stage |-> "none", obj |-> Obj("ndarray", Ramp(MaxLen), <<>>),
        sampling_rate |-> 500, ac |-> None, emg |-> T_150, dft |-> T_0p5],
       [fn |-> "apply_ecg_filters", stage |-> "none", obj |-> Obj("list", Ramp(MinSignalLen), <<>>),
        sampling_rate |-> 100, ac |-> T_50, emg |-> Num(2500), dft |-> T_abc],
       [fn |-> "apply_ecg_filters", stage |-> "none", obj |-> Obj("ndarray", Ramp(MinSignalLen - 1), <<>>),
        sampling_rate |-> 500, ac |-> T_50, emg |-> T_150, dft |-> T_0p5],
       [fn |-> "apply_ecg_filters_from_settings", stage |-> "none",
        obj |-> Obj("ndarray", Ramp(MaxLen), <<>>),
        sampling_rate |-> 500, ac |-> None, emg |-> None, dft |-> None],
       [fn |-> "stage", stage |-> "EMG", obj |-> Obj("ndarray", Ramp(MaxLen), <<>>),
        sampling_rate |-> 500, ac |-> T_150, emg |-> T_150, dft |-> T_150] >>

\* Every thread makes one call, each on its own buffer.  Threads being
\* interchangeable, the calls are taken in the order of ConcCalls.
InitConc ==
    \E pick \in [Threads -> 1..Len(ConcCalls)] :
        /\ \A t, u \in Threads : t < u => pick[t] <= pick[u]
        /\ InitWith([t \in Threads |-> ConcCalls[pick[t]]], MixedAnswers)

NextConc == \E t \in Threads : Step(t)

SpecConc == InitConc /\ [][NextConc]_vars

\* ------------------------------------------------------- reference values
IsPipeline(t) == call[t].fn \in {"apply_ecg_filters", "apply_ecg_filters_from_settings"}

\* The selectors an invocation's pipeline works with: its own arguments, or
\* the provider's answers for the adapter.
Args(t) ==
    IF call[t].fn = "apply_ecg_filters_from_settings"
    THEN [ac |-> answers["filter_ac"], emg |-> answers["filter_emg"],
          dft |-> answers["filter_dft"]]
    ELSE sel[t]

SelOf(a, stage) ==
    CASE stage = "DFT" -> a.dft
      [] stage = "EMG" -> a.emg
      [] stage = "AC" -> a.ac

InLen(t) == Len(call[t].x0.x)

\* One stage as a function on values, a skipped stage being the identity.
RefStage(stage, acc, sampling_rate, a) ==
    IF Truthy(SelOf(a, stage))
    THEN LET r == ApplyStage(stage, acc.obj, sampling_rate, SelOf(a, stage))
         IN  [obj |-> r.obj, diag |-> acc.diag \o r.diag]
    ELSE acc

\* order[3](order[2](order[1](o)))
Compose(order, o, sampling_rate, a) ==
    RefStage(order[3],
             RefStage(order[2],
                      RefStage(order[1], [obj |-> o, diag |-> <<>>], sampling_rate, a),
                      sampling_rate, a),
             sampling_rate, a)

DocumentedOrder == <<"DFT", "EMG", "AC">>
OtherOrders == {<<"DFT", "AC", "EMG">>, <<"EMG", "DFT", "AC">>, <<"EMG", "AC", "DFT">>,
                <<"AC", "DFT", "EMG">>, <<"AC", "EMG", "DFT">>}

Documented(t) == Compose(DocumentedOrder, call[t].x0, call[t].sampling_rate, Args(t))

EnabledStages(a) ==
    LET On(s) == Truthy(SelOf(a, s)) IN SelectSeq(DocumentedOrder, On)

\* The selector is a frequency: float() parses it to a number.
Denotes(s) == float(s).exc = "none" /\ ~float(s).nan

\* The frequency lies strictly between 0 and Nyquist.
InBand(s, sampling_rate) ==
    /\ Denotes(s)
    /\ sampling_rate /= 0
    /\ ~OutOfRange(Normalized(float(s).v, sampling_rate))

\* The frequency is <= 0 or >= Nyquist.
OutOfBand(s, sampling_rate) ==
    /\ Denotes(s)
    /\ sampling_rate /= 0
    /\ OutOfRange(Normalized(float(s).v, sampling_rate))

Logged(t, stage) == \E i \in 1..Len(diag[t]) : diag[t][i].stage = stage

\* ------------------------------------------------------------------ claims

\* C1: on a buffer of at least 10 samples the pipeline calls exactly the
\* enabled stages, in the order DFT, EMG, AC; the first gets a copy of the
\* input, each later one gets the object the previous one returned, the last
\* one's result is returned, and the returned samples are AC(EMG(DFT(input)))
\* with skipped stages as identity; an order whose composition differs from
\* that is not the result.
C1_FixedStageOrder ==
    \A t \in Threads :
        (IsPipeline(t) /\ pc[t] = "done" /\ InLen(t) >= MinSignalLen) =>
            LET tr == trace[t]
                doc == Documented(t).obj
            IN  /\ [i \in 1..Len(tr) |-> tr[i].stage] = EnabledStages(Args(t))
                /\ \A i \in 1..(Len(tr) - 1) : tr[i + 1].arg = tr[i].out
                /\ Len(tr) > 0 =>
                       /\ SameSamples(heap[tr[1].arg], call[t].x0)
                       /\ ret[t] = tr[Len(tr)].out
                /\ SameSamples(heap[ret[t]], doc)
                /\ \A p \in OtherOrders :
                       LET other == Compose(p, call[t].x0, call[t].sampling_rate, Args(t)).obj
                       IN  ~SameSamples(other, doc) => ~SameSamples(heap[ret[t]], other)

\* C1 witness: a finished pipeline call in which all three stages filtered
\* the buffer and some other order would have given different samples.
C1_Witness ==
    \E t \in Threads :
        /\ IsPipeline(t) /\ pc[t] = "done" /\ InLen(t) >= MinSignalLen
        /\ Len(trace[t]) = 3
        /\ \A i \in 1..3 : trace[t][i].applied
        /\ \E p \in OtherOrders :
               ~SameSamples(Compose(p, call[t].x0, call[t].sampling_rate, Args(t)).obj,
                            Documented(t).obj)

\* C2: no exception leaves a call; a stage that did not filter returned the
\* very object it was given and, unless its selector is "off", logged a
\* diagnostic; a finished pipeline call returns a buffer and, on a buffer of
\* at least 10 samples, has called every enabled stage, failures before it
\* notwithstanding.
C2_NoStageAborts ==
    \A t \in Threads :
        /\ raised[t] = "none"
        /\ pc[t] /= "raised"
        /\ IsPipeline(t) =>
             /\ \A i \in 1..Len(trace[t]) :
                    ~trace[t][i].applied =>
                        /\ trace[t][i].out = trace[t][i].arg
                        /\ \/ IsOffText(SelOf(Args(t), trace[t][i].stage))
                           \/ Logged(t, trace[t][i].stage)
             /\ pc[t] = "done" =>
                    /\ ret[t] \in 1..Len(heap)
                    /\ Len(heap[ret[t]].x) = InLen(t)
                    /\ InLen(t) >= MinSignalLen =>
                           [i \in 1..Len(trace[t]) |-> trace[t][i].stage]
                               = EnabledStages(Args(t))

\* C2 witness: a finished pipeline call in which one stage failed with an
\* error and a later stage filtered the buffer that the failed stage left.
C2_Witness ==
    \E t \in Threads :
        /\ IsPipeline(t) /\ pc[t] = "done"
        /\ \E i, j \in 1..Len(trace[t]) :
               /\ i < j
               /\ ~trace[t][i].applied
               /\ Error(trace[t][i].stage) \in {diag[t][k] : k \in 1..Len(diag[t])}
               /\ trace[t][j].applied
               /\ trace[t][j].arg = trace[t][i].arg

\* C3 (as claimed): a direct call of a stage function whose selector is a
\* frequency f, text or number, with f / (sampling_rate / 2) <= 0 or >= 1
\* returns the buffer it was given, unchanged, raises nothing and emits a
\* diagnostic naming the stage.
C3_InvalidFrequencyDiagnosed ==
    \A t \in Threads :
        (/\ call[t].fn = "stage"
         /\ pc[t] \in {"done", "raised"}
         /\ OutOfBand(SelOf(sel[t], call[t].stage), call[t].sampling_rate)) =>
            /\ raised[t] = "none"
            /\ ret[t] = call[t].inp
            /\ heap[ret[t]] = call[t].x0
            /\ Logged(t, call[t].stage)

\* C4: a pipeline call on fewer than 10 samples never calls a stage and never
\* prints a diagnostic, and what it returns has the input's samples.
C4_ShortIsNoOp ==
    \A t \in Threads :
        (IsPipeline(t) /\ InLen(t) < MinSignalLen) =>
            /\ trace[t] = <<>>
            /\ diag[t] = <<>>
            /\ raised[t] = "none"
            /\ pc[t] \in {"settings", "entry", "done"}
            /\ pc[t] = "done" => SameSamples(heap[ret[t]], call[t].x0)

\* C4 witness: a finished call on a short, non-empty buffer with a selector
\* that would have been reported as invalid had its stage run.
C4_Witness ==
    \E t \in Threads :
        /\ IsPipeline(t) /\ pc[t] = "done"
        /\ InLen(t) > 0 /\ InLen(t) < MinSignalLen
        /\ \E s \in Stages : Truthy(SelOf(Args(t), s)) /\ ~Denotes(SelOf(Args(t), s))
        /\ \E s \in Stages : OutOfBand(SelOf(Args(t), s), call[t].sampling_rate)

AllOff(a) == \A s \in Stages : IsOffText(SelOf(a, s)) \/ SelOf(a, s) = None

\* C5: with every selector "off" or absent, the returned buffer has the
\* input's length and samples, unfiltered.
C5_AllOffIdentity ==
    \A t \in Threads :
        (IsPipeline(t) /\ pc[t] = "done" /\ AllOff(Args(t))) =>
            /\ Len(heap[ret[t]].x) = InLen(t)
            /\ heap[ret[t]].x = call[t].x0.x
            /\ heap[ret[t]].ops = <<>>

\* C5 witness: a finished call on at least 10 samples with an "off" and an
\* absent selector among three disabled ones.
C5_Witness ==
    \E t \in Threads :
        /\ IsPipeline(t) /\ pc[t] = "done" /\ AllOff(Args(t))
        /\ InLen(t) >= MinSignalLen
        /\ \E s \in Stages : IsOffText(SelOf(Args(t), s))
        /\ \E s \in Stages : SelOf(Args(t), s) = None

\* C6: throughout a pipeline call the caller's input object holds what it
\* held when the call was made.
C6_InputNotMutated ==
    \A t \in Threads : IsPipeline(t) => heap[call[t].inp] = call[t].x0

\* C6 witness: a finished call on the caller's array whose result was
\* filtered, one stage having failed on the way.
C6_Witness ==
    \E t \in Threads :
        /\ IsPipeline(t) /\ pc[t] = "done"
        /\ call[t].x0.kind = "ndarray"
        /\ heap[ret[t]].ops /= <<>>
        /\ \E i \in 1..Len(trace[t]) : ~trace[t][i].applied

\* C7 (as claimed): the object a pipeline call returns is never the caller's
\* input object.
C7_ReturnsNewBuffer ==
    \A t \in Threads :
        (IsPipeline(t) /\ pc[t] = "done") => ret[t] /= call[t].inp

\* C8: the adapter asks the provider for filter_ac (default "off"),
\* filter_emg (default "150") and filter_dft (default "0.5"), and returns
\* what the pipeline gives for the AC, EMG and DFT selectors so answered.
C8_SettingsAdapter ==
    \A t \in Threads :
        (call[t].fn = "apply_ecg_filters_from_settings" /\ pc[t] = "done") =>
            LET a == [ac |-> answers["filter_ac"], emg |-> answers["filter_emg"],
                      dft |-> answers["filter_dft"]]
                ref == Compose(DocumentedOrder, call[t].x0, call[t].sampling_rate, a)
            IN  /\ {queries[t][i] : i \in 1..Len(queries[t])}
                      = {[key |-> "filter_ac", default |-> T_off],
                         [key |-> "filter_emg", default |-> T_150],
                         [key |-> "filter_dft", default |-> T_0p5]}
                /\ Len(queries[t]) = 3
                /\ sel[t] = a
                /\ SameSamples(heap[ret[t]], IF InLen(t) < MinSignalLen THEN call[t].x0 ELSE ref.obj)
                /\ diag[t] = IF InLen(t) < MinSignalLen THEN <<>> ELSE ref.diag

\* C8 witness: a finished adapter call whose three answers differ and whose
\* three stages all filtered the buffer.
C8_Witness ==
    \E t \in Threads :
        /\ call[t].fn = "apply_ecg_filters_from_settings" /\ pc[t] = "done"
        /\ Cardinality({answers[k] : k \in Keys}) = 3
        /\ Len(trace[t]) = 3
        /\ \A i \in 1..3 : trace[t][i].applied

\* C9: with calls interleaved, each finished pipeline call has the result
\* and the diagnostics that its own arguments alone determine, and its input
\* buffer is untouched by the other calls; two finished calls with equal
\* arguments have equal results.
C9_CallsIndependent ==
    /\ \A t \in Threads :
           (IsPipeline(t) /\ pc[t] = "done") =>
               /\ SameSamples(heap[ret[t]],
                              IF InLen(t) < MinSignalLen THEN call[t].x0 ELSE Documented(t).obj)
               /\ diag[t] = IF InLen(t) < MinSignalLen THEN <<>> ELSE Documented(t).diag
    /\ \A t \in Threads : heap[call[t].inp] = call[t].x0
    /\ \A t, u \in Threads :
           (/\ IsPipeline(t) /\ IsPipeline(u) /\ pc[t] = "done" /\ pc[u] = "done"
            /\ SameSamples(call[t].x0, call[u].x0)
            /\ call[t].sampling_rate = call[u].sampling_rate
            /\ Args(t) = Args(u)) =>
               /\ SameSamples(heap[ret[t]], heap[ret[u]])
               /\ diag[t] = diag[u]

\* C9 witness: two finished pipeline calls with different arguments whose
\* stages interleaved: a stage of one ran between two stages of the other.
C9_Witness ==
    \E t, u \in Threads :
        /\ t /= u
        /\ IsPipeline(t) /\ IsPipeline(u) /\ pc[t] = "done" /\ pc[u] = "done"
        /\ Args(t) /= Args(u)
        /\ \E i, j \in 1..Len(trace[t]), k \in 1..Len(trace[u]) :
               /\ trace[t][i].applied /\ trace[t][j].applied /\ trace[u][k].applied
               /\ trace[t][i].out < trace[u][k].out
               /\ trace[u][k].out < trace[t][j].out

\* C10 (as claimed): on a buffer of at least 10 samples every stage the
\* pipeline calls with a frequency strictly between 0 and Nyquist filters
\* the buffer.
C10_TenSamplesSuffice ==
    \A t \in Threads :
        (IsPipeline(t) /\ pc[t] = "done" /\ InLen(t) >= MinSignalLen) =>
            \A i \in 1..Len(trace[t]) :
                InBand(SelOf(Args(t), trace[t][i].stage), call[t].sampling_rate) =>
                    trace[t][i].applied

====
